---- MODULE Spec2Model ----
(***************************************************************************)
(* Bit-level model of the vector log-family routines (SVE log, SVE log10f, *)
(* SVE log10, AdvSIMD log10), of log1p_inline and of the scalar cosf.      *)
(*                                                                         *)
(* A 32- or 64-bit register lane is a sequence of 16-bit limbs, most       *)
(* significant first, so that <<\H3fe6, \H9009, 0, 0>> is the pattern      *)
(* 0x3fe6900900000000.  All integer arithmetic is done on the limbs with   *)
(* explicit borrow/carry, i.e. modulo 2^32 / 2^64 as the hardware does.    *)
(* Floating-point arithmetic is not evaluated: a value produced by it is   *)
(* kept as a symbolic record of the operands it was computed from.         *)
(***************************************************************************)
EXTENDS Integers, Sequences, FiniteSets, TLC

VARIABLES fn, arg, pc, res

vars == <<fn, arg, pc, res>>

(***************************************************************************)
(* Bounds of the model.                                                    *)
(***************************************************************************)
\* Number of lanes of an SVE vector (hardware dependent; at least 2 doubles).
Lanes == 2
\* Inputs are the bit patterns within Spread of each boundary pattern.
Spread == 2

(***************************************************************************)
(* Fixed-width unsigned arithmetic on limb sequences.                      *)
(***************************************************************************)
Radix == 2^16

RECURSIVE BitAnd(_, _)
BitAnd(a, b) ==
  IF a = 0 \/ b = 0 THEN 0
  ELSE (a % 2) * (b % 2) + 2 * BitAnd(a \div 2, b \div 2)

BitOr(a, b) == a + b - BitAnd(a, b)

WAnd(a, b) == [j \in 1..Len(a) |-> BitAnd(a[j], b[j])]

WOr(a, b) == [j \in 1..Len(a) |-> BitOr(a[j], b[j])]

\* Borrow out of limbs j..Len(a) of a - b.
RECURSIVE Borrow(_, _, _)
Borrow(a, b, j) ==
  IF j > Len(a) THEN 0
  ELSE IF a[j] - b[j] - Borrow(a, b, j + 1) < 0 THEN 1 ELSE 0

\* a - b modulo 2^(16 * Len(a)).
WSub(a, b) == [j \in 1..Len(a) |-> (a[j] - b[j] - Borrow(a, b, j + 1)) % Radix]

\* Carry out of limbs j..Len(a) of a + b.
RECURSIVE Carry(_, _, _)
Carry(a, b, j) ==
  IF j > Len(a) THEN 0
  ELSE IF a[j] + b[j] + Carry(a, b, j + 1) >= Radix THEN 1 ELSE 0

\* a + b modulo 2^(16 * Len(a)).
WAdd(a, b) == [j \in 1..Len(a) |-> (a[j] + b[j] + Carry(a, b, j + 1)) % Radix]

\* Unsigned a < b, a >= b.
WLt(a, b) ==
  \E j \in 1..Len(a) : a[j] < b[j] /\ \A m \in 1..(j - 1) : a[m] = b[m]

WGe(a, b) == ~WLt(a, b)

\* Limb j of a, with `fill` to the left of the word.
LimbF(a, j, fill) == IF j < 1 THEN fill ELSE a[j]

\* Right shift by s bits, shifting `fill` limbs in at the top.
ShiftRight(a, s, fill) ==
  LET q == s \div 16
      r == s % 16
  IN [j \in 1..Len(a) |->
        (LimbF(a, j - q, fill) \div 2^r)
        + (LimbF(a, j - q - 1, fill) % 2^r) * 2^(16 - r)]

\* Logical shift right (svlsr, vshrq_n_u64, >> on unsigned).
WShr(a, s) == ShiftRight(a, s, 0)

\* Arithmetic shift right (svasr, vshrq_n_s64): the sign bit is replicated.
WAsr(a, s) == ShiftRight(a, s, IF a[1] >= 2^15 THEN Radix - 1 ELSE 0)

\* The word of length len holding the small number n.
WordOf(n, len) == [j \in 1..len |-> IF j = len THEN n ELSE 0]

\* Value of a word as a natural (for words known to be small).
RECURSIVE WNatUpTo(_, _)
WNatUpTo(a, j) == IF j = 0 THEN 0 ELSE WNatUpTo(a, j - 1) * Radix + a[j]

WNat(a) == WNatUpTo(a, Len(a))

\* Value of a word read as a two's complement signed integer (small in
\* magnitude), as svreinterpret_s64_u64 / vreinterpretq_s64_u64 give it.
WInt(a) ==
  IF a[1] >= 2^15 THEN 0 - WNat(WSub(WordOf(0, Len(a)), a)) ELSE WNat(a)

(***************************************************************************)
(* Symbolic floating-point values.                                         *)
(***************************************************************************)
\* Lanes that an SVE "_x" (don't-care) operation leaves unspecified, as the
\* inactive lanes of every intermediate and of the result are.
Unspecified == {[kind |-> "unspecified", id |-> 0], [kind |-> "unspecified", id |-> 1]}

\* The fast path's polynomial result, kept as the reduction it was computed from.
Fast(f, red) == [kind |-> "fast", f |-> f, red |-> red]

\* The scalar routine f applied to the lane pattern x.
Scalar(f, x) == [kind |-> "scalar", f |-> f, x |-> x]

\* Predicate tests over a vector of lanes.
svptest_any(pg, p) == \E l \in 1..Len(p) : pg[l] /\ p[l]

v_any_u64(p) == \E l \in 1..Len(p) : p[l]

\* Lane-wise call of the scalar routine for the lanes of cmp, y elsewhere.
sv_call_f64(f, x, y, cmp) ==
  [l \in 1..Len(x) |-> IF cmp[l] THEN Scalar(f, x[l]) ELSE y[l]]

sv_call_f32(f, x, y, cmp) ==
  [l \in 1..Len(x) |-> IF cmp[l] THEN Scalar(f, x[l]) ELSE y[l]]

v_call_f64(f, x, y, p) ==
  [l \in 1..Len(x) |-> IF p[l] THEN Scalar(f, x[l]) ELSE y[l]]

\* x mod y computed as x - (x / y) * y, on a word small enough to be a number.
sv_mod_n_u64_x(x, y) == WordOf(WNat(x) - (WNat(x) \div y) * y, Len(x))

(***************************************************************************)
(* Table sizes (math_config.h).                                            *)
(***************************************************************************)
V_LOG_TABLE_BITS == 7
V_LOG10_TABLE_BITS == 7

(***************************************************************************)
(* SVE double-precision log (sv_log_2u5.c).                                *)
(***************************************************************************)
N_log == 2^V_LOG_TABLE_BITS
Off == <<\H3fe6, \H9009, \H0000, \H0000>>
MaxTop == WordOf(\H7ff, 4)
MinTop == WordOf(\H001, 4)
ThreshTop == WordOf(\H7fe, 4)

\* Mutant: the threshold is MaxTop instead of MaxTop - MinTop.
svlog_cmp_MaxTop(ix) == WGe(WSub(WShr(ix, 52), MinTop), MaxTop)

\* cmp = (ix >> 52) - MinTop >= ThreshTop
svlog_cmp(ix) == WGe(WSub(WShr(ix, 52), MinTop), ThreshTop)

svlog_tmp(ix) == WSub(ix, Off)

\* Mutant: the index is masked with N instead of N - 1.
svlog_i_MaskN(ix) ==
  WNat(WAnd(WShr(svlog_tmp(ix), 52 - V_LOG_TABLE_BITS), WordOf(N_log, 4)))

\* i = (tmp >> (52 - V_LOG_TABLE_BITS)) & (N - 1)
svlog_i(ix) ==
  WNat(WAnd(WShr(svlog_tmp(ix), 52 - V_LOG_TABLE_BITS), WordOf(N_log - 1, 4)))

\* k = (int64_t) tmp >> 52
svlog_k(ix) == WInt(WAsr(svlog_tmp(ix), 52))

\* iz = ix - (tmp & 0xfffULL << 52)
svlog_iz(ix) == WSub(ix, WAnd(svlog_tmp(ix), <<\Hfff0, \H0000, \H0000, \H0000>>))

svlog_special_case(x, y, cmp) == sv_call_f64("log", x, y, cmp)

svlog_return(x, y, pg, cmp) ==
  IF svptest_any(pg, cmp) THEN svlog_special_case(x, y, cmp) ELSE y

sv_log(x, pg, junk) ==
  LET cmp == [l \in 1..Len(x) |-> pg[l] /\ svlog_cmp(x[l])]
      red == [l \in 1..Len(x) |->
                IF pg[l]
                THEN [i |-> svlog_i(x[l]), k |-> svlog_k(x[l]), iz |-> svlog_iz(x[l])]
                ELSE junk[l]]
      y == [l \in 1..Len(x) |-> IF pg[l] THEN Fast("sv_log", red[l]) ELSE junk[l]]
  IN [special |-> cmp, red |-> red, y |-> y,
      fallback |-> svptest_any(pg, cmp),
      ret |-> svlog_return(x, y, pg, cmp)]

(***************************************************************************)
(* SVE single-precision log10.                                             *)
(***************************************************************************)
Min32 == <<\H0080, \H0000>>
Max32 == <<\H7f80, \H0000>>
Thres32 == <<\H7f00, \H0000>>
Offset == <<\H3f2a, \Haaab>>
MantissaMask == <<\H007f, \Hffff>>

\* special = ix - Min >= Thres
svlog10f_special(ix) == WGe(WSub(ix, Min32), Thres32)

\* n = (int32_t) (ix - Offset) >> 23
svlog10f_n(ix) == WInt(WAsr(WSub(ix, Offset), 23))

\* ix = ((ix - Offset) & MantissaMask) + Offset
svlog10f_ix(ix) == WAdd(WAnd(WSub(ix, Offset), MantissaMask), Offset)

svlog10f_special_case(x, y, special) == sv_call_f32("log10f", x, y, special)

svlog10f_return(x, y, pg, special) ==
  IF svptest_any(pg, special) THEN svlog10f_special_case(x, y, special) ELSE y

sv_log10f(x, pg, junk) ==
  LET special == [l \in 1..Len(x) |-> pg[l] /\ svlog10f_special(x[l])]
      red == [l \in 1..Len(x) |->
                IF pg[l]
                THEN [n |-> svlog10f_n(x[l]), ix |-> svlog10f_ix(x[l])]
                ELSE junk[l]]
      y == [l \in 1..Len(x) |-> IF pg[l] THEN Fast("sv_log10f", red[l]) ELSE junk[l]]
  IN [special |-> special, red |-> red, y |-> y,
      fallback |-> svptest_any(pg, special),
      ret |-> svlog10f_return(x, y, pg, special)]

(***************************************************************************)
(* SVE double-precision log10.                                             *)
(***************************************************************************)
Min64 == <<\H0010, \H0000, \H0000, \H0000>>
Max64 == <<\H7ff0, \H0000, \H0000, \H0000>>
Thres64 == <<\H7fe0, \H0000, \H0000, \H0000>>
N_log10 == 2^V_LOG10_TABLE_BITS

\* special = ix - Min >= Thres
svlog10_special(ix) == WGe(WSub(ix, Min64), Thres64)

svlog10_tmp(ix) == WSub(ix, Off)

\* i = (tmp >> (52 - V_LOG10_TABLE_BITS)) mod N
svlog10_i(ix) ==
  WNat(sv_mod_n_u64_x(WShr(svlog10_tmp(ix), 52 - V_LOG10_TABLE_BITS), N_log10))

\* k = (int64_t) tmp >> 52
svlog10_k(ix) == WInt(WAsr(svlog10_tmp(ix), 52))

\* z = ix - (tmp & 0xfffULL << 52)
svlog10_iz(ix) ==
  WSub(ix, WAnd(svlog10_tmp(ix), <<\Hfff0, \H0000, \H0000, \H0000>>))

svlog10_special_case(x, y, special) == sv_call_f64("log10", x, y, special)

\* Mutant: only the first lane of the mask decides the dispatch.
svlog10_return_FirstLane(x, y, pg, special) ==
  IF pg[1] /\ special[1] THEN svlog10_special_case(x, y, special) ELSE y

svlog10_return(x, y, pg, special) ==
  IF svptest_any(pg, special) THEN svlog10_special_case(x, y, special) ELSE y

sv_log10(x, pg, junk) ==
  LET special == [l \in 1..Len(x) |-> pg[l] /\ svlog10_special(x[l])]
      red == [l \in 1..Len(x) |->
                IF pg[l]
                THEN [i |-> svlog10_i(x[l]), k |-> svlog10_k(x[l]),
                      iz |-> svlog10_iz(x[l])]
                ELSE junk[l]]
      y == [l \in 1..Len(x) |-> IF pg[l] THEN Fast("sv_log10", red[l]) ELSE junk[l]]
  IN [special |-> special, red |-> red, y |-> y,
      fallback |-> svptest_any(pg, special),
      ret |-> svlog10_return(x, y, pg, special)]

(***************************************************************************)
(* AdvSIMD double-precision log10 (two lanes, no governing predicate).     *)
(***************************************************************************)
min_norm == <<\H0010, \H0000, \H0000, \H0000>>
special_bound == <<\H7fe0, \H0000, \H0000, \H0000>>
sign_exp_mask == <<\Hfff0, \H0000, \H0000, \H0000>>
IndexMask == WordOf(N_log10 - 1, 4)

\* special = ix - min_norm >= special_bound
vlog10_special(ix) == WGe(WSub(ix, min_norm), special_bound)

vlog10_tmp(ix) == WSub(ix, Off)

\* i = (tmp >> (52 - V_LOG10_TABLE_BITS)) & IndexMask
vlog10_i(ix) ==
  WNat(WAnd(WShr(vlog10_tmp(ix), 52 - V_LOG10_TABLE_BITS), IndexMask))

\* k = (int64_t) tmp >> 52
vlog10_k(ix) == WInt(WAsr(vlog10_tmp(ix), 52))

\* Mutant: the mask leaves out the sign bit of tmp.
vlog10_iz_ExpMask(ix) ==
  WSub(ix, WAnd(vlog10_tmp(ix), <<\H7ff0, \H0000, \H0000, \H0000>>))

\* iz = ix - (tmp & sign_exp_mask)
vlog10_iz(ix) == WSub(ix, WAnd(vlog10_tmp(ix), sign_exp_mask))

vlog10_special_case(x, y, special) == v_call_f64("log10", x, y, special)

vlog10_return(x, y, special) ==
  IF v_any_u64(special) THEN vlog10_special_case(x, y, special) ELSE y

v_log10(x) ==
  LET special == [l \in 1..Len(x) |-> vlog10_special(x[l])]
      red == [l \in 1..Len(x) |->
                [i |-> vlog10_i(x[l]), k |-> vlog10_k(x[l]), iz |-> vlog10_iz(x[l])]]
      y == [l \in 1..Len(x) |-> Fast("v_log10", red[l])]
  IN [special |-> special, red |-> red, y |-> y,
      fallback |-> v_any_u64(special),
      ret |-> vlog10_return(x, y, special)]

(***************************************************************************)
(* Inputs of the log-family routines.                                      *)
(***************************************************************************)
\* The patterns within Spread of the boundary pattern b (wrapping around).
Near(b) ==
  {WAdd(b, WordOf(d, Len(b))) : d \in 0..Spread}
  \cup {WSub(b, WordOf(d, Len(b))) : d \in 0..Spread}

\* +0, smallest normal, Off, 1.0, 100.0, +Inf, -0, -1.0 as doubles.
Boundary64 ==
  { <<\H0000, \H0000, \H0000, \H0000>>, <<\H0010, \H0000, \H0000, \H0000>>,
    <<\H3fe6, \H9009, \H0000, \H0000>>, <<\H3ff0, \H0000, \H0000, \H0000>>,
    <<\H4059, \H0000, \H0000, \H0000>>, <<\H7ff0, \H0000, \H0000, \H0000>>,
    <<\H8000, \H0000, \H0000, \H0000>>, <<\Hbff0, \H0000, \H0000, \H0000>> }

\* +0, smallest normal, Offset, 1.0f, +Inf, -0, -1.0f as floats.
Boundary32 ==
  { <<\H0000, \H0000>>, <<\H0080, \H0000>>, <<\H3f2a, \Haaab>>,
    <<\H3f80, \H0000>>, <<\H7f80, \H0000>>, <<\H8000, \H0000>>,
    <<\Hbf80, \H0000>> }

Inputs64 == UNION {Near(b) : b \in Boundary64}

Inputs32 == UNION {Near(b) : b \in Boundary32}

\* The other lanes of a vector: a normal, a zero and a negative pattern.
Companions64 ==
  { <<\H3ff0, \H0000, \H0000, \H0000>>, <<\H0000, \H0000, \H0000, \H0000>>,
    <<\Hbff0, \H0000, \H0000, \H0000>> }

Companions32 == { <<\H3f80, \H0000>>, <<\H0000, \H0000>>, <<\Hbf80, \H0000>> }

\* Vectors of n lanes: the first lane takes every input, the others a companion.
Vectors(n, inputs, companions) ==
  {v \in [1..n -> inputs \cup companions] :
     \A l \in 2..n : v[l] \in companions}

LogArgs(f) ==
  CASE f = "sv_log" ->
         [x : Vectors(Lanes, Inputs64, Companions64), pg : [1..Lanes -> BOOLEAN]]
    [] f = "sv_log10" ->
         [x : Vectors(Lanes, Inputs64, Companions64), pg : [1..Lanes -> BOOLEAN]]
    [] f = "sv_log10f" ->
         [x : Vectors(Lanes, Inputs32, Companions32), pg : [1..Lanes -> BOOLEAN]]
    [] f = "v_log10" ->
         [x : Vectors(2, Inputs64, Companions64), pg : {[l \in 1..2 |-> TRUE]}]

LogRoutines == {"sv_log", "sv_log10f", "sv_log10", "v_log10"}

NoResult == [kind |-> "none"]

InitLog ==
  /\ fn \in LogRoutines
  /\ arg \in LogArgs(fn)
  /\ pc = "call"
  /\ res = NoResult

SvLog ==
  /\ pc = "call" /\ fn = "sv_log"
  /\ \E junk \in [1..Lanes -> Unspecified] : res' = sv_log(arg.x, arg.pg, junk)
  /\ pc' = "done"
  /\ UNCHANGED <<fn, arg>>

SvLog10f ==
  /\ pc = "call" /\ fn = "sv_log10f"
  /\ \E junk \in [1..Lanes -> Unspecified] : res' = sv_log10f(arg.x, arg.pg, junk)
  /\ pc' = "done"
  /\ UNCHANGED <<fn, arg>>

SvLog10 ==
  /\ pc = "call" /\ fn = "sv_log10"
  /\ \E junk \in [1..Lanes -> Unspecified] : res' = sv_log10(arg.x, arg.pg, junk)
  /\ pc' = "done"
  /\ UNCHANGED <<fn, arg>>

VLog10 ==
  /\ pc = "call" /\ fn = "v_log10"
  /\ res' = v_log10(arg.x)
  /\ pc' = "done"
  /\ UNCHANGED <<fn, arg>>

NextLog == SvLog \/ SvLog10f \/ SvLog10 \/ VLog10

SpecLog == InitLog /\ [][NextLog]_vars

(***************************************************************************)
(* Properties of the log-family routines.                                  *)
(***************************************************************************)
LogDone == pc = "done" /\ fn \in LogRoutines

TableRoutines == {"sv_log", "sv_log10", "v_log10"}

\* Sign, biased exponent and mantissa fields of a double / float pattern.
Sign64(w) == w[1] \div 2^15
Exp64(w) == (w[1] \div 2^4) % 2^11
MantZero64(w) == w[1] % 2^4 = 0 /\ w[2] = 0 /\ w[3] = 0 /\ w[4] = 0
Sign32(w) == w[1] \div 2^15
Exp32(w) == (w[1] \div 2^7) % 2^8
MantZero32(w) == w[1] % 2^7 = 0 /\ w[2] = 0

\* A positive normal finite number: sign clear, exponent neither 0 nor all ones.
IsPosNormal(w) ==
  IF Len(w) = 4 THEN Sign64(w) = 0 /\ Exp64(w) \in 1..(2^11 - 2)
  ELSE Sign32(w) = 0 /\ Exp32(w) \in 1..(2^8 - 2)

ScalarOf(f) ==
  CASE f = "sv_log" -> "log" [] f = "sv_log10f" -> "log10f"
    [] f = "sv_log10" -> "log10" [] f = "v_log10" -> "log10"

\* C1: in every log-family vector routine the special-case mask of an active
\* lane is true exactly when the lane's bit pattern is not a positive normal
\* number (so for zeros, subnormals, Inf, NaN and every pattern with the sign
\* bit set), an inactive lane is never flagged, and the top-12-bit test of SVE
\* log flags exactly the 64-bit patterns that the full-width test flags.
C1_SpecialMask ==
  LogDone =>
    /\ \A l \in DOMAIN arg.x :
         res.special[l] <=> (arg.pg[l] /\ ~IsPosNormal(arg.x[l]))
    /\ fn \in TableRoutines =>
         \A l \in DOMAIN arg.x :
           /\ svlog_cmp(arg.x[l]) <=> svlog10_special(arg.x[l])
           /\ svlog_cmp(arg.x[l]) <=> vlog10_special(arg.x[l])

\* A subnormal lane is flagged next to a normal lane that is not.
C1_Witness ==
  /\ LogDone /\ fn = "sv_log"
  /\ arg.pg[1] /\ arg.pg[2]
  /\ Exp64(arg.x[1]) = 0 /\ ~MantZero64(arg.x[1]) /\ Sign64(arg.x[1]) = 0
  /\ res.special[1]
  /\ IsPosNormal(arg.x[2]) /\ ~res.special[2]

\* C2: if no active lane is flagged the fallback is not invoked and the fast
\* path vector y is returned as is; otherwise the result holds the scalar
\* routine's value at exactly the flagged lanes and y's lane elsewhere.
C2_Merge ==
  LogDone =>
    IF \E l \in DOMAIN arg.x : arg.pg[l] /\ res.special[l]
    THEN /\ res.fallback
         /\ \A l \in DOMAIN arg.x :
              res.ret[l] = IF res.special[l]
                           THEN Scalar(ScalarOf(fn), arg.x[l])
                           ELSE res.y[l]
    ELSE ~res.fallback /\ res.ret = res.y

\* One lane flagged and replaced, the other lane kept from the fast path.
C2_Witness ==
  /\ LogDone /\ fn = "sv_log10"
  /\ arg.pg[1] /\ arg.pg[2]
  /\ ~res.special[1] /\ res.special[2]
  /\ res.ret[1] = res.y[1] /\ res.y[1].kind = "fast"
  /\ res.ret[2] = Scalar("log10", arg.x[2])

\* 2^52 as a 64-bit word.
TwoTo52 == <<\H0010, \H0000, \H0000, \H0000>>

\* C8: for every positive normal double lane of the table-based routines the
\* reduced pattern iz satisfies Off <= iz < Off + 2^52, ix = iz + k * 2^52
\* holds exactly (without wrap-around), and iz keeps the 52 mantissa bits of ix.
C8_Reduction ==
  (LogDone /\ fn \in TableRoutines) =>
    \A l \in DOMAIN arg.x :
      (arg.pg[l] /\ IsPosNormal(arg.x[l])) =>
        LET ix == arg.x[l]
            iz == res.red[l].iz
            k == res.red[l].k
        IN /\ WGe(iz, Off) /\ WLt(iz, WAdd(Off, TwoTo52))
           /\ ix[1] = iz[1] + k * 2^4
           /\ ix[2] = iz[2] /\ ix[3] = iz[3] /\ ix[4] = iz[4]
           /\ ix[1] % 2^4 = iz[1] % 2^4

\* A normal input below Off is reduced with a negative exponent k.
C8_Witness ==
  /\ LogDone /\ fn = "v_log10"
  /\ IsPosNormal(arg.x[1]) /\ WLt(arg.x[1], Off)
  /\ res.red[1].k < 0
  /\ res.red[1].iz # arg.x[1]

\* C10: the table index of every lane that is computed lies in 0..N-1, for
\* special (zero, subnormal, negative, Inf, NaN) patterns too, and the masked
\* form of the index equals the modulo form.
C10_IndexInTable ==
  (LogDone /\ fn \in TableRoutines) =>
    \A l \in DOMAIN arg.x :
      /\ arg.pg[l] => res.red[l].i \in 0..(N_log10 - 1)
      /\ svlog_i(arg.x[l]) = svlog10_i(arg.x[l])
      /\ vlog10_i(arg.x[l]) = svlog10_i(arg.x[l])

\* A NaN lane is flagged and still gets an index inside the table.
C10_Witness ==
  /\ LogDone /\ fn = "sv_log"
  /\ arg.pg[1] /\ res.special[1]
  /\ Exp64(arg.x[1]) = 2^11 - 1 /\ ~MantZero64(arg.x[1])
  /\ res.red[1].i \in 1..(N_log - 1)

(***************************************************************************)
(* Single-precision cosf (cosf.c).  y is the bit pattern of the argument.  *)
(***************************************************************************)
\* Top 12 bits of the float representation with the sign bit cleared.
abstop12(x) == BitAnd(WNat(WShr(x, 20)), \H7ff)

\* The float nearest to pi/4, and the float literals of cosf.c.
pio4f == <<\H3f49, \H0fdb>>
TwoToMinus12f == <<\H3980, \H0000>>
OneTwentyf == <<\H42f0, \H0000>>
INFINITYf == <<\H7f80, \H0000>>
Onef == <<\H3f80, \H0000>>

\* A C int as a 32-bit two's complement word, and n & m on it.
IntWord(n) ==
  IF n >= 0 THEN <<n \div Radix, n % Radix>>
  ELSE WSub(<<0, 0>>, <<(0 - n) \div Radix, (0 - n) % Radix>>)

IntAnd(n, m) == WNat(WAnd(IntWord(n), IntWord(m)))

\* n ^ 1 on a C int: bit 0 is flipped.
IntXor1(n) == IF IntAnd(n, 1) = 0 THEN n + 1 ELSE n - 1

\* |y| * 2^8 rounded down, for a normal y below 2^8.
Fixed8(y) ==
  LET E == (y[1] \div 2^7) % 2^8
      M == (2^7 + (y[1] % 2^7)) * Radix + y[2]
  IN M \div 2^(142 - E)

\* The quadrants n = round (x * 2/pi) that the fast reduction can deliver for
\* y: every integer within 1/2 of x * 2/pi, with |y| known to 2^-8 and
\* 0.7853 < pi/4 < 0.7854.
reduce_fast(y) ==
  LET Q == Fixed8(y)
      m == {a \in 0..(Q \div 2^8 + 1) :
              /\ (2 * a - 1) * 7853 * 2^8 <= (Q + 1) * 10000
              /\ Q * 10000 <= (2 * a + 1) * 7854 * 2^8}
  IN IF y[1] >= 2^15 THEN {0 - a : a \in m} ELSE m

\* The quadrant delivered by the large reduction of |y|: 0..3.
reduce_large(xi) == 0..3

\* The polynomial on the reduced argument, kept symbolic: the sign table entry
\* s multiplying x, the coefficient table p and the sin/cos selector n.
sinf_poly(s, p, n) == [kind |-> "sinf_poly", s |-> s, p |-> p, n |-> n]

math_invalidf(y) == [kind |-> "invalid", y |-> y]

\* Mutant: the comparison with INFINITY is <= instead of <.
cosf_path_InfIsLarge(y) ==
  IF abstop12(y) < abstop12(pio4f) THEN "small"
  ELSE IF abstop12(y) < abstop12(OneTwentyf) THEN "medium"
  ELSE IF abstop12(y) <= abstop12(INFINITYf) THEN "large"
  ELSE "invalid"

\* Mutant: the comparison with pio4f is <= instead of <.
cosf_path_Pio4Inclusive(y) ==
  IF abstop12(y) <= abstop12(pio4f) THEN "small"
  ELSE IF abstop12(y) < abstop12(OneTwentyf) THEN "medium"
  ELSE IF abstop12(y) < abstop12(INFINITYf) THEN "large"
  ELSE "invalid"

\* The branch of cosf's if-else chain taken for y.
cosf_path(y) ==
  IF abstop12(y) < abstop12(pio4f) THEN "small"
  ELSE IF abstop12(y) < abstop12(OneTwentyf) THEN "medium"
  ELSE IF abstop12(y) < abstop12(INFINITYf) THEN "large"
  ELSE "invalid"

\* Mutant: the comparison with 0x1p-12f is <= instead of <.
cosf_small_Inclusive(y) ==
  IF abstop12(y) <= abstop12(TwoToMinus12f)
  THEN [path |-> "small", shortcut |-> TRUE, reduced |-> "none", n |-> 0,
        index |-> 0, table |-> 0, ret |-> [kind |-> "float", bits |-> Onef]]
  ELSE [path |-> "small", shortcut |-> FALSE, reduced |-> "none", n |-> 0,
        index |-> 0, table |-> 0, ret |-> sinf_poly("none", 0, 1)]

\* |y| < pi/4: the early return of 1.0f, or the polynomial on x itself.
cosf_small(y) ==
  IF abstop12(y) < abstop12(TwoToMinus12f)
  THEN [path |-> "small", shortcut |-> TRUE, reduced |-> "none", n |-> 0,
        index |-> 0, table |-> 0, ret |-> [kind |-> "float", bits |-> Onef]]
  ELSE [path |-> "small", shortcut |-> FALSE, reduced |-> "none", n |-> 0,
        index |-> 0, table |-> 0, ret |-> sinf_poly("none", 0, 1)]

\* Mutant: the medium path adds the sign bit of y, as the large path does.
cosf_medium_WithSign(y, n) ==
  LET sign == WNat(WShr(y, 31))
      index == IntAnd(n + sign, 3)
      table == IF IntAnd(n + sign, 2) # 0 THEN 1 ELSE 0
  IN [path |-> "medium", shortcut |-> FALSE, reduced |-> "reduce_fast", n |-> n,
      index |-> index, table |-> table,
      ret |-> sinf_poly(index, table, IntXor1(n))]

\* s = p->sign[n & 3]; if (n & 2) p = &__sincosf_table[1];
cosf_medium(y, n) ==
  LET index == IntAnd(n, 3)
      table == IF IntAnd(n, 2) # 0 THEN 1 ELSE 0
  IN [path |-> "medium", shortcut |-> FALSE, reduced |-> "reduce_fast", n |-> n,
      index |-> index, table |-> table,
      ret |-> sinf_poly(index, table, IntXor1(n))]

\* sign = xi >> 31; s = p->sign[(n + sign) & 3];
\* if ((n + sign) & 2) p = &__sincosf_table[1];
cosf_large(y, n) ==
  LET sign == WNat(WShr(y, 31))
      index == IntAnd(n + sign, 3)
      table == IF IntAnd(n + sign, 2) # 0 THEN 1 ELSE 0
  IN [path |-> "large", shortcut |-> FALSE, reduced |-> "reduce_large", n |-> n,
      index |-> index, table |-> table,
      ret |-> sinf_poly(index, table, IntXor1(n))]

cosf_invalid(y) ==
  [path |-> "invalid", shortcut |-> FALSE, reduced |-> "none", n |-> 0,
   index |-> 0, table |-> 0, ret |-> math_invalidf(y)]

\* 0, 2^-12, 0.75, pi/4, 1, pi, 3pi/2, 120, 1e30 and Inf, of either sign.
BoundaryCos ==
  LET pos == { <<\H0000, \H0000>>, <<\H3980, \H0000>>, <<\H3f40, \H0000>>,
               <<\H3f49, \H0fdb>>, <<\H3f80, \H0000>>, <<\H4049, \H0fdb>>,
               <<\H4096, \Hcbe4>>, <<\H42f0, \H0000>>, <<\H7149, \Hf2ca>>,
               <<\H7f80, \H0000>> }
  IN pos \cup {<<w[1] + 2^15, w[2]>> : w \in pos}

InputsCos == UNION {Near(b) : b \in BoundaryCos}

InitCos ==
  /\ fn = "cosf"
  /\ arg \in InputsCos
  /\ pc = "call"
  /\ res = NoResult

CosfSmall ==
  /\ pc = "call" /\ fn = "cosf" /\ cosf_path(arg) = "small"
  /\ res' = cosf_small(arg)
  /\ pc' = "done"
  /\ UNCHANGED <<fn, arg>>

CosfMedium ==
  /\ pc = "call" /\ fn = "cosf" /\ cosf_path(arg) = "medium"
  /\ \E n \in reduce_fast(arg) : res' = cosf_medium(arg, n)
  /\ pc' = "done"
  /\ UNCHANGED <<fn, arg>>

CosfLarge ==
  /\ pc = "call" /\ fn = "cosf" /\ cosf_path(arg) = "large"
  /\ \E n \in reduce_large(arg) : res' = cosf_large(arg, n)
  /\ pc' = "done"
  /\ UNCHANGED <<fn, arg>>

CosfInvalid ==
  /\ pc = "call" /\ fn = "cosf" /\ cosf_path(arg) = "invalid"
  /\ res' = cosf_invalid(arg)
  /\ pc' = "done"
  /\ UNCHANGED <<fn, arg>>

NextCos == CosfSmall \/ CosfMedium \/ CosfLarge \/ CosfInvalid

SpecCos == InitCos /\ [][NextCos]_vars

(***************************************************************************)
(* Properties of cosf.                                                     *)
(***************************************************************************)
CosDone == pc = "done" /\ fn = "cosf"

\* The bit pattern of |y|.
AbsBits(y) == <<y[1] % 2^15, y[2]>>

\* 0.75f, the float whose top 12 bits are those of pi/4.
ThreeQuartersf == <<\H3f40, \H0000>>

\* C3: cosf reaches the invalid-operation path if and only if y is a NaN or
\* an infinity (biased exponent 0xff); every finite y, zeros and subnormals
\* of either sign included, is handled by one of the three polynomial paths.
C3_InvalidIffNonFinite ==
  CosDone =>
    /\ (res.path = "invalid") <=> (Exp32(arg) = 2^8 - 1)
    /\ (res.ret.kind = "invalid") <=> (Exp32(arg) = 2^8 - 1)
    /\ Exp32(arg) # 2^8 - 1 => res.path \in {"small", "medium", "large"}

\* -Inf takes the invalid path.
C3_Witness ==
  /\ CosDone /\ arg = <<\Hff80, \H0000>>
  /\ res.path = "invalid" /\ res.ret = math_invalidf(arg)

\* C4 as claimed: cosf(0x1p-12f) returns 1.0f through the early return of the
\* small-argument path.
C4_Original ==
  (CosDone /\ arg = TwoToMinus12f) =>
    (res.shortcut /\ res.ret = [kind |-> "float", bits |-> Onef])

\* C4 as amended: the early return of 1.0f is taken exactly for |y| < 0x1p-12;
\* cosf(0x1p-12f) itself is in the small-argument path but its value comes from
\* the polynomial sinf_poly (x, x2, p, 1).
C4_Shortcut ==
  CosDone =>
    /\ res.shortcut <=> WLt(AbsBits(arg), TwoToMinus12f)
    /\ res.shortcut => res.ret = [kind |-> "float", bits |-> Onef]
    /\ arg = TwoToMinus12f =>
         (res.path = "small" /\ ~res.shortcut /\ res.ret = sinf_poly("none", 0, 1))

\* cosf(0x1p-12f) has been evaluated, by the polynomial.
C4_Witness ==
  /\ CosDone /\ arg = TwoToMinus12f
  /\ res.path = "small" /\ res.ret.kind = "sinf_poly"

\* C5 as claimed: the small path is taken exactly for |y| < pi/4 and the medium
\* path exactly for pi/4 <= |y| < 120 (a float is below pi/4 exactly when its
\* absolute bit pattern is below that of pio4f, the float just above pi/4).
C5_Original ==
  (CosDone /\ Exp32(arg) # 2^8 - 1) =>
    /\ (res.path = "small") <=> WLt(AbsBits(arg), pio4f)
    /\ (res.path = "medium") <=>
         (WGe(AbsBits(arg), pio4f) /\ WLt(AbsBits(arg), OneTwentyf))

\* C5 as amended: the comparison is on the top 12 bits, so the small path (no
\* reduce_fast, no reduce_large) is taken exactly for |y| < 0.75 and the
\* medium path (reduce_fast) exactly for 0.75 <= |y| < 120.
C5_PathRanges ==
  CosDone =>
    /\ (res.path = "small") <=> WLt(AbsBits(arg), ThreeQuartersf)
    /\ (res.path = "medium") <=>
         (WGe(AbsBits(arg), ThreeQuartersf) /\ WLt(AbsBits(arg), OneTwentyf))
    /\ res.path = "small" => res.reduced = "none"
    /\ res.path = "medium" => res.reduced = "reduce_fast"

\* A y in [0.75, pi/4) has gone through the medium path.
C5_Witness ==
  /\ CosDone
  /\ WGe(AbsBits(arg), ThreeQuartersf) /\ WLt(AbsBits(arg), pio4f)
  /\ res.path = "medium" /\ res.reduced = "reduce_fast"

\* C7 as claimed: in the medium path the sign table index is
\* (n + original_sign) & 3 and the second table is selected exactly when bit 1
\* of n + original_sign is set.
C7_Original ==
  (CosDone /\ res.path = "medium") =>
    /\ res.index = (res.n + Sign32(arg)) % 4
    /\ (res.table = 1) <=> ((res.n + Sign32(arg)) % 4 \in {2, 3})

\* C7 as amended: in the medium path the sign table index is n & 3 and the
\* second table is selected exactly when bit 1 of n is set, n being the signed
\* quadrant of the fast reduction (the sign bit of y is not added); only the
\* large path uses (n + original_sign) & 3 and bit 1 of n + original_sign.
C7_QuadrantIndex ==
  CosDone =>
    /\ res.path = "medium" =>
         /\ res.index = res.n % 4
         /\ (res.table = 1) <=> (res.n % 4 \in {2, 3})
         /\ res.ret = sinf_poly(res.index, res.table, IntXor1(res.n))
    /\ res.path = "large" =>
         /\ res.index = (res.n + Sign32(arg)) % 4
         /\ (res.table = 1) <=> ((res.n + Sign32(arg)) % 4 \in {2, 3})

\* A negative y in the medium path with a negative quadrant.
C7_Witness ==
  /\ CosDone /\ res.path = "medium"
  /\ Sign32(arg) = 1 /\ res.n < 0
  /\ res.index = 3 /\ res.table = 1

(***************************************************************************)
(* log1p_inline (v_log1p_inline.h), two double lanes.                      *)
(***************************************************************************)
HfRt2Top == <<\H3fe6, \Ha09e, \H0000, \H0000>>
OneMHfRt2Top == <<\H0009, \H5f62, \H0000, \H0000>>
OneTop == \H3ff
BottomMask == <<\H0000, \H0000, \Hffff, \Hffff>>

\* The doubles x the model calls log1p_inline with, each with the double
\* x + 1 (round to nearest): 0, 2^-60, -2^-60, -0.25, 0.4, the two x on each
\* side of x + 1 = asdouble (HfRt2Top), the two x on each side of
\* x + 1 = 2 * asdouble (HfRt2Top), 0.5, 1, -0.5, 3, 1e10.
AddOneTable ==
  { << <<\H0000, \H0000, \H0000, \H0000>>, <<\H3ff0, \H0000, \H0000, \H0000>> >>,
    << <<\H3c30, \H0000, \H0000, \H0000>>, <<\H3ff0, \H0000, \H0000, \H0000>> >>,
    << <<\Hbc30, \H0000, \H0000, \H0000>>, <<\H3ff0, \H0000, \H0000, \H0000>> >>,
    << <<\Hbfd0, \H0000, \H0000, \H0000>>, <<\H3fe8, \H0000, \H0000, \H0000>> >>,
    << <<\H3fd9, \H9999, \H9999, \H999a>>, <<\H3ff6, \H6666, \H6666, \H6666>> >>,
    << <<\Hbfd2, \Hbec4, \H0000, \H0000>>, <<\H3fe6, \Ha09e, \H0000, \H0000>> >>,
    << <<\Hbfd2, \Hbec4, \H0000, \H0002>>, <<\H3fe6, \Ha09d, \Hffff, \Hffff>> >>,
    << <<\H3fda, \H8278, \H0000, \H0000>>, <<\H3ff6, \Ha09e, \H0000, \H0000>> >>,
    << <<\H3fda, \H8277, \Hffff, \Hfffc>>, <<\H3ff6, \Ha09d, \Hffff, \Hffff>> >>,
    << <<\H3fe0, \H0000, \H0000, \H0000>>, <<\H3ff8, \H0000, \H0000, \H0000>> >>,
    << <<\H3ff0, \H0000, \H0000, \H0000>>, <<\H4000, \H0000, \H0000, \H0000>> >>,
    << <<\Hbfe0, \H0000, \H0000, \H0000>>, <<\H3fe0, \H0000, \H0000, \H0000>> >>,
    << <<\H4008, \H0000, \H0000, \H0000>>, <<\H4010, \H0000, \H0000, \H0000>> >>,
    << <<\H4202, \Ha05f, \H2000, \H0000>>, <<\H4202, \Ha05f, \H2008, \H0000>> >> }

\* m = x + 1
log1p_m(x) == (CHOOSE p \in AddOneTable : p[1] = x)[2]

\* u = mi + OneMHfRt2Top
log1p_u(x) == WAdd(log1p_m(x), OneMHfRt2Top)

\* ki = (int64_t) (u >> 52) - OneTop; k = (double) ki
log1p_k(x) == WInt(WShr(log1p_u(x), 52)) - OneTop

\* u_red = ((u & 0x000fffff00000000) + HfRt2Top) | (mi & BottomMask)
log1p_u_red(x) ==
  WOr(WAdd(WAnd(log1p_u(x), <<\H000f, \Hffff, \H0000, \H0000>>), HfRt2Top),
      WAnd(log1p_m(x), BottomMask))

\* Doubles of the routine, kept symbolic: a double given by its bit pattern,
\* f = asdouble (u_red) - 1 and the correction term cm = (x - (m - 1)) / m.
Double(bits) == [kind |-> "double", bits |-> bits]

log1p_f(x) == [kind |-> "asdouble - 1", bits |-> log1p_u_red(x)]

log1p_cm(x) == [kind |-> "(x - (m - 1)) / m", x |-> x, m |-> log1p_m(x)]

\* Bitwise select under an all-ones / all-zeros lane mask.
vbslq_f64(mask, a, b) == [l \in 1..Len(mask) |-> IF mask[l] THEN a[l] ELSE b[l]]

\* Broadcast of one double to the two lanes.
v_f64(d) == [l \in 1..2 |-> d]

\* Mutant: when any lane has k == 0 every lane is substituted.
log1p_shortcut_AllLanes(x, k, cm, f) ==
  LET k0 == [l \in 1..Len(x) |-> k[l] = 0]
  IN IF v_any_u64(k0)
     THEN [cm |-> v_f64(Double(WordOf(0, 4))),
           f |-> [l \in 1..Len(x) |-> Double(x[l])],
           taken |-> TRUE]
     ELSE [cm |-> cm, f |-> f, taken |-> FALSE]

\* The k == 0 shortcut: k0 = k == 0; if any lane of k0, select per lane.
log1p_shortcut(x, k, cm, f) ==
  LET k0 == [l \in 1..Len(x) |-> k[l] = 0]
  IN IF v_any_u64(k0)
     THEN [cm |-> vbslq_f64(k0, v_f64(Double(WordOf(0, 4))), cm),
           f |-> vbslq_f64(k0, [l \in 1..Len(x) |-> Double(x[l])], f),
           taken |-> TRUE]
     ELSE [cm |-> cm, f |-> f, taken |-> FALSE]

\* log1p_inline built with WANT_V_LOG1P_K0_SHORTCUT = want.
log1p_inline(x, want) ==
  LET k == [l \in 1..Len(x) |-> log1p_k(x[l])]
      f == [l \in 1..Len(x) |-> log1p_f(x[l])]
      cm == [l \in 1..Len(x) |-> log1p_cm(x[l])]
      sc == IF want = 1 THEN log1p_shortcut(x, k, cm, f)
            ELSE [cm |-> cm, f |-> f, taken |-> FALSE]
  IN [k |-> k, cm |-> sc.cm, f |-> sc.f, taken |-> sc.taken,
      ret |-> [l \in 1..Len(x) |->
                 [kind |-> "k * ln2 + log1p(f) + cm",
                  k |-> k[l], f |-> sc.f[l], cm |-> sc.cm[l]]]]

Log1pInputs == {p[1] : p \in AddOneTable}

InitLog1p ==
  /\ fn = "log1p_inline"
  /\ arg \in [x : [1..2 -> Log1pInputs], want : {0, 1}]
  /\ pc = "call"
  /\ res = NoResult

Log1pShortcut ==
  /\ pc = "call" /\ fn = "log1p_inline" /\ arg.want = 1
  /\ res' = log1p_inline(arg.x, 1)
  /\ pc' = "done"
  /\ UNCHANGED <<fn, arg>>

Log1pPlain ==
  /\ pc = "call" /\ fn = "log1p_inline" /\ arg.want = 0
  /\ res' = log1p_inline(arg.x, 0)
  /\ pc' = "done"
  /\ UNCHANGED <<fn, arg>>

NextLog1p == Log1pShortcut \/ Log1pPlain

SpecLog1p == InitLog1p /\ [][NextLog1p]_vars

Log1pDone == pc = "done" /\ fn = "log1p_inline"

\* C9: with WANT_V_LOG1P_K0_SHORTCUT = 1 the substitution is per lane: a lane
\* with k = 0 gets cm = 0 and f = x; a lane with k # 0 keeps the cm and f of
\* its own reduction, whatever k the other lane has.
C9_ShortcutPerLane ==
  (Log1pDone /\ arg.want = 1) =>
    \A l \in 1..2 :
      IF res.k[l] = 0
      THEN res.cm[l] = Double(WordOf(0, 4)) /\ res.f[l] = Double(arg.x[l])
      ELSE res.cm[l] = log1p_cm(arg.x[l]) /\ res.f[l] = log1p_f(arg.x[l])

\* The branch is taken for a k = 0 lane next to a lane with k # 0.
C9_Witness ==
  /\ Log1pDone /\ arg.want = 1 /\ res.taken
  /\ res.k[1] = 0 /\ res.f[1] = Double(arg.x[1])
  /\ res.k[2] # 0 /\ res.f[2].kind = "asdouble - 1"

(***************************************************************************)
(* The whole library: one call of any of the routines.                     *)
(***************************************************************************)
Init == InitLog \/ InitCos \/ InitLog1p

Next == NextLog \/ NextCos \/ NextLog1p

Spec == Init /\ [][Next]_vars

====
